---- MODULE Spec2Model ----
(***************************************************************************)
(* clean_hr_data (HR_Data_cleaning.py): read a CSV of employee records,    *)
(* fill missing values (median / mode), correct the column types and       *)
(* one-hot encode the categorical columns.                                 *)
(*                                                                         *)
(* A DataFrame is a sequence of columns; a column is a name, a dtype and a *)
(* sequence of cells.  Text is a sequence of one-character strings, so     *)
(* that str() conversions and the ordering of strings are computed.        *)
(* A float cell holds its value in quarters (Flt(6) is 1.5), which is      *)
(* exact for halves and for the mean of two halves.                        *)
(***************************************************************************)
EXTENDS Integers, Sequences, FiniteSets, TLC

VARIABLES file, df, cleaned_df, pc, result, warned

vars == <<file, df, cleaned_df, pc, result, warned>>

\* ------------------------------------------------------------ bounds
MaxRows == 3

\* Quarters per unit of a float cell.
Unit == 2 * 2

\* ------------------------------------------------------------ text
\* The characters used, in code point order (the order Python compares str by).
Ascii ==
  <<" ", "-", ".", "0", "1", "2", "3", "4", "5", "6", "7", "8", "9",
    "A", "B", "C", "D", "E", "F", "G", "H", "I", "J", "K", "L", "M",
    "N", "O", "P", "Q", "R", "S", "T", "U", "V", "W", "X", "Y", "Z", "_",
    "a", "b", "c", "d", "e", "f", "g", "h", "i", "j", "k", "l", "m",
    "n", "o", "p", "q", "r", "s", "t", "u", "v", "w", "x", "y", "z">>

Ord(c) == CHOOSE i \in 1..Len(Ascii) : Ascii[i] = c

\* Python's str < str: lexicographic on code points, a proper prefix first.
TextLess(a, b) ==
  \E i \in 1..(Len(b)) :
     /\ i <= Len(a) + 1
     /\ \A j \in 1..(i - 1) : a[j] = b[j]
     /\ \/ i = Len(a) + 1
        \/ i <= Len(a) /\ Ord(a[i]) < Ord(b[i])

Digit(d) == Ascii[d + 4]

RECURSIVE Digits(_)
Digits(n) == IF n < 10 THEN <<Digit(n)>> ELSE Digits(n \div 10) \o <<Digit(n % 10)>>

\* str(int)
IntStr(n) == IF n < 0 THEN <<"-">> \o Digits(-n) ELSE Digits(n)

\* str(float) of a value held in quarters: 1.0, 2.5, 1.75, -1.5
FloatStr(q) ==
  LET a == IF q < 0 THEN -q ELSE q
      frac == CASE a % Unit = 0 -> <<"0">>
                [] a % Unit = 1 -> <<"2", "5">>
                [] a % Unit = 2 -> <<"5">>
                [] OTHER -> <<"7", "5">>
  IN  (IF q < 0 THEN <<"-">> ELSE <<>>) \o Digits(a \div Unit) \o <<".">> \o frac

\* ------------------------------------------------------------ cells
NaN == [k |-> "nan", v |-> 0]
IntCell(n) == [k |-> "int", v |-> n]
Flt(q) == [k |-> "float", v |-> q]
Whole(n) == Flt(n * Unit)
Str(s) == [k |-> "str", v |-> s]
Bool(b) == [k |-> "bool", v |-> b]

\* Series.isnull() of one cell
IsNull(x) == x.k = "nan"

\* str(cell), as astype(str) gives it
CellStr(x) ==
  CASE x.k = "int" -> IntStr(x.v)
    [] x.k = "float" -> FloatStr(x.v)
    [] x.k = "nan" -> <<"n", "a", "n">>
    [] x.k = "bool" -> IF x.v = 1 THEN <<"T", "r", "u", "e">> ELSE <<"F", "a", "l", "s", "e">>
    [] OTHER -> x.v

\* The order of two non-null cells of one column: numbers by value, text by TextLess.
CellLess(x, y) ==
  IF x.k = "str" THEN TextLess(x.v, y.v)
  ELSE (IF x.k = "int" THEN x.v * Unit ELSE x.v) < (IF y.k = "int" THEN y.v * Unit ELSE y.v)

\* ------------------------------------------------------------ columns
Name(c) == [col |-> c, level |-> <<>>]

Column(c, dtype, cells) == [name |-> Name(c), dtype |-> dtype, cells |-> cells]

NumericCols == <<"Age", "Salary", "Experience">>
CategoricalFill == <<"Department", "Gender", "Attrition", "Education">>
categorical_cols == <<"Department", "Attrition", "Education", "Gender">>

Range(s) == {s[i] : i \in 1..Len(s)}

Has(t, c) == \E i \in 1..Len(t) : t[i].name = Name(c)
Pos(t, c) == CHOOSE i \in 1..Len(t) : t[i].name = Name(c)
Col(t, c) == t[Pos(t, c)]

\* len(df): the rows of the table's index
NRows(t) == IF t = <<>> THEN 0 ELSE Len(t[1].cells)

\* ------------------------------------------------------------ input files
\* The demonstration table of the source, as to_csv writes it and read_csv reads it back.
DummyData ==
  <<[c |-> "EmployeeID", cells |-> <<IntCell(1), IntCell(2), IntCell(3), IntCell(4), IntCell(5), IntCell(6)>>],
    [c |-> "Age", cells |-> <<Whole(30), Whole(25), NaN, Whole(40), Whole(35), Whole(28)>>],
    [c |-> "Department", cells |-> <<Str(<<"H", "R">>), Str(<<"S", "a", "l", "e", "s">>), Str(<<"I", "T">>),
                                     Str(<<"H", "R">>), NaN, Str(<<"I", "T">>)>>],
    [c |-> "Attrition", cells |-> <<Str(<<"N", "o">>), Str(<<"Y", "e", "s">>), Str(<<"N", "o">>),
                                    Str(<<"N", "o">>), Str(<<"Y", "e", "s">>), NaN>>],
    [c |-> "Salary", cells |-> <<Whole(50000), Whole(60000), Whole(75000), NaN, Whole(55000), Whole(70000)>>],
    [c |-> "Experience", cells |-> <<Whole(5), Whole(2), Whole(10), Whole(15), NaN, Whole(3)>>],
    [c |-> "Education", cells |-> <<Str(<<"B", "a", "c", "h", "e", "l", "o", "r", "s">>), Str(<<"M", "a", "s", "t", "e", "r", "s">>),
                                    Str(<<"P", "h", "D">>), Str(<<"B", "a", "c", "h", "e", "l", "o", "r", "s">>),
                                    Str(<<"M", "a", "s", "t", "e", "r", "s">>),
                                    Str(<<"H", "i", "g", "h", " ", "S", "c", "h", "o", "o", "l">>)>>],
    [c |-> "Gender", cells |-> <<Str(<<"M", "a", "l", "e">>), Str(<<"F", "e", "m", "a", "l", "e">>), Str(<<"M", "a", "l", "e">>),
                                 Str(<<"F", "e", "m", "a", "l", "e">>), Str(<<"M", "a", "l", "e">>), NaN>>]>>

\* The dtype pd.read_csv infers for a column: text makes it object, whole numbers
\* without a missing value int64, other numbers (or nothing but missing values)
\* float64; a column of no rows is object.
InferDtype(cells) ==
  IF cells = <<>> THEN "object"
  ELSE IF \E i \in 1..Len(cells) : cells[i].k = "str" THEN "object"
  ELSE IF \A i \in 1..Len(cells) : cells[i].k = "int" THEN "int64"
  ELSE "float64"

ReadColumn(c, cells) == Column(c, InferDtype(cells), cells)

\* The first n rows of the demonstration table.
DummyTable(n) ==
  [i \in 1..Len(DummyData) |-> ReadColumn(DummyData[i].c, SubSeq(DummyData[i].cells, 1, n))]

\* Cell values the enumerated columns are drawn from.
IntVals == {IntCell(9), IntCell(10)}
FloatVals == {Flt(0 - 6), Flt(4), Flt(10), Flt(12)}
CodeVals == {Whole(9), Whole(10)}
TextVals == {Str(<<"H", "R">>), Str(<<"I", "T">>), Str(<<"S", "a", "l", "e", "s">>)}
IdVals == {Str(<<"E", "1">>), Str(<<"E", "2">>)}

\* What a CSV column of n rows can parse to: whole numbers, floats with missing
\* values, or text with missing values.
Parsed(n, ints, floats, texts) ==
  [1..n -> ints] \cup [1..n -> floats \cup {NaN}] \cup [1..n -> texts \cup {NaN}]

NumericInputs(n) == Parsed(n, IntVals, FloatVals, {Str(<<"a", "b", "c">>)})
CategoricalInputs(n) == Parsed(n, IntVals, CodeVals, TextVals)
IdInputs(n) == Parsed(n, IntVals, {Whole(1)}, IdVals)
ExtraInputs(n) == Parsed(n, {}, {}, {Str(<<"o", "k">>)})

Replace(t, c, cells) == [t EXCEPT ![Pos(t, c)] = ReadColumn(c, cells)]
Without(t, c) == SubSeq(t, 1, Pos(t, c) - 1) \o SubSeq(t, Pos(t, c) + 1, Len(t))

\* The tables read: the demonstration table with one column replaced by an
\* enumerated one, with an extra column appended, or with one column absent.
Tables ==
  UNION {
    {Replace(DummyTable(n), NumericCols[i], x) : i \in 1..Len(NumericCols), x \in NumericInputs(n)}
    \cup {Replace(DummyTable(n), categorical_cols[i], x) : i \in 1..Len(categorical_cols), x \in CategoricalInputs(n)}
    \cup {Replace(DummyTable(n), "EmployeeID", x) : x \in IdInputs(n)}
    \cup {DummyTable(n) \o <<ReadColumn("Notes", x)>> : x \in ExtraInputs(n)}
    \cup {Without(DummyTable(n), DummyData[i].c) : i \in 1..Len(DummyData)}
    : n \in 0..MaxRows}

Files ==
  {[kind |-> "missing", table |-> <<>>], [kind |-> "malformed", table |-> <<>>]}
  \cup {[kind |-> "csv", table |-> t] : t \in Tables}

Pending == [kind |-> "pending", exc |-> ""]
None == [kind |-> "None", exc |-> ""]
Returned == [kind |-> "DataFrame", exc |-> ""]
Raised(e) == [kind |-> "raise", exc |-> e]

Init ==
  /\ file \in Files
  /\ df = <<>>
  /\ cleaned_df = <<>>
  /\ pc = "read_csv"
  /\ result = Pending
  /\ warned = "unset"

\* ------------------------------------------------------------ pandas operations
\* Series.isnull().any()
AnyNull(cells) == \E i \in 1..Len(cells) : IsNull(cells[i])

\* Series.dropna(): the non-null cells, in row order
RECURSIVE DropNa(_)
DropNa(cells) ==
  IF cells = <<>> THEN <<>>
  ELSE (IF IsNull(Head(cells)) THEN <<>> ELSE <<Head(cells)>>) \o DropNa(Tail(cells))

\* The cells sorted ascending, duplicates kept.
RECURSIVE SortCells(_)
SortCells(cells) ==
  IF cells = <<>> THEN <<>>
  ELSE LET i == CHOOSE i \in 1..Len(cells) : \A j \in 1..Len(cells) : ~CellLess(cells[j], cells[i])
       IN  <<cells[i]>> \o SortCells(SubSeq(cells, 1, i - 1) \o SubSeq(cells, i + 1, Len(cells)))

\* The distinct cells of a set, sorted ascending.
RECURSIVE SortSet(_)
SortSet(S) ==
  IF S = {} THEN <<>>
  ELSE LET m == CHOOSE x \in S : \A y \in S : ~CellLess(y, x)
       IN  <<m>> \o SortSet(S \ {m})

\* A median that takes the lower middle value for an even count.
MedianLower(cells) ==
  LET s == SortCells(DropNa(cells))
      n == Len(s)
  IN  IF n = 0 THEN NaN ELSE s[(n + 1) \div 2]

\* Series.median() of a float64 column: NaN skipped; the middle of the sorted
\* values, the mean of the two middle ones for an even count; NaN for none.
Median(cells) ==
  LET s == SortCells(DropNa(cells))
      n == Len(s)
  IN  IF n = 0 THEN NaN
      ELSE IF n % 2 = 1 THEN s[(n + 1) \div 2]
      ELSE Flt((s[n \div 2].v + s[n \div 2 + 1].v) \div 2)

Count(cells, x) == Cardinality({i \in 1..Len(cells) : cells[i] = x})

\* Series.mode(): the most frequent non-null values, sorted ascending.
Mode(cells) ==
  LET s == DropNa(cells)
      top == {x \in Range(s) : \A y \in Range(s) : Count(s, y) <= Count(s, x)}
  IN  SortSet(top)

\* A fill that drops the rows with a missing value instead of filling them.
FillNaDropsRows(cells, value) == DropNa(cells)

\* A fill that assigns the value to the whole column.
FillNaOverwrites(cells, value) == [i \in 1..Len(cells) |-> value]

\* Series.fillna(value): a null cell takes value, the others stay; fillna(NaN)
\* changes nothing.
FillNa(cells, value) ==
  [i \in 1..Len(cells) |-> IF IsNull(cells[i]) THEN value ELSE cells[i]]

\* A conversion that rounds down.
TruncFloor(q) == q \div Unit

\* int(float): the fraction is dropped, towards zero.
Trunc(q) == IF q >= 0 THEN q \div Unit ELSE 0 - ((0 - q) \div Unit)

\* Series.astype(int) of a float64 column without missing values.
AsInt(cells) == [i \in 1..Len(cells) |-> IntCell(Trunc(cells[i].v))]

\* Series.astype(str)
AsStr(cells) == [i \in 1..Len(cells) |-> Str(CellStr(cells[i]))]

SetCol(t, c, dtype, cells) == [t EXCEPT ![Pos(t, c)] = Column(c, dtype, cells)]

Ok(t) == [t |-> t, exc |-> ""]
Err(t, e) == [t |-> t, exc |-> e]

\* ------------------------------------------------------------ stage 2: missing values
\* One pass of the loop over Age, Salary, Experience, from column i on.
RECURSIVE FillNumeric(_, _)
FillNumeric(t, i) ==
  IF i > Len(NumericCols) THEN Ok(t)
  ELSE LET column == NumericCols[i] IN
    IF ~Has(t, column) THEN Err(t, "KeyError")
    ELSE LET c == Col(t, column) IN
      IF ~AnyNull(c.cells) THEN FillNumeric(t, i + 1)
      ELSE IF c.dtype = "object" THEN Err(t, "TypeError")
      ELSE FillNumeric(SetCol(t, column, c.dtype, FillNa(c.cells, Median(c.cells))), i + 1)

\* One pass of the loop over Department, Gender, Attrition, Education.
RECURSIVE FillCategorical(_, _)
FillCategorical(t, i) ==
  IF i > Len(CategoricalFill) THEN Ok(t)
  ELSE LET column == CategoricalFill[i] IN
    IF ~Has(t, column) THEN Err(t, "KeyError")
    ELSE LET c == Col(t, column) IN
      IF ~AnyNull(c.cells) THEN FillCategorical(t, i + 1)
      ELSE IF Mode(c.cells) = <<>> THEN Err(t, "KeyError")
      ELSE FillCategorical(SetCol(t, column, c.dtype, FillNa(c.cells, Mode(c.cells)[1])), i + 1)

\* cleaned_df.isnull().sum().sum()
NullCount(t) ==
  Cardinality({<<i, r>> \in (1..Len(t)) \X (1..NRows(t)) : IsNull(t[i].cells[r])})

\* ------------------------------------------------------------ stage 3: data types
RECURSIVE ConvertNumeric(_, _)
ConvertNumeric(t, i) ==
  IF i > Len(NumericCols) THEN Ok(t)
  ELSE LET col == NumericCols[i]
           c == Col(t, col)
       IN  IF c.dtype # "float64" THEN ConvertNumeric(t, i + 1)
           ELSE IF AnyNull(c.cells) THEN Err(t, "ValueError")
           ELSE ConvertNumeric(SetCol(t, col, "int64", AsInt(c.cells)), i + 1)

ConvertEmployeeID(t) ==
  IF ~Has(t, "EmployeeID") THEN Err(t, "KeyError")
  ELSE LET c == Col(t, "EmployeeID") IN
    IF c.dtype # "object" THEN Ok(SetCol(t, "EmployeeID", "object", AsStr(c.cells)))
    ELSE Ok(t)

\* ------------------------------------------------------------ stage 4: encoding
drop_first_off == FALSE

drop_first == TRUE

\* Categories in order of first appearance.
RECURSIVE FirstSeen(_)
FirstSeen(cells) ==
  IF cells = <<>> THEN <<>>
  ELSE LET rest == FirstSeen(SubSeq(cells, 1, Len(cells) - 1))
           x == cells[Len(cells)]
       IN  IF x \in Range(rest) THEN rest ELSE rest \o <<x>>

LevelsFirstSeen(cells) == FirstSeen(DropNa(cells))

\* The categories of a column: its distinct non-null values, sorted.
Levels(cells) == SortSet(Range(DropNa(cells)))

\* prefix + "_" + str(level)
DummyName(c, level) == [col |-> c, level |-> <<"_">> \o CellStr(level)]

\* The indicator columns of one column: one per category, the first dropped.
Dummies1d(c) ==
  LET levels == Levels(c.cells)
      first == IF drop_first THEN 2 ELSE 1
  IN  [j \in 1..(Len(levels) - (first - 1)) |->
         [name |-> DummyName(c.name.col, levels[j + first - 1]),
          dtype |-> "bool",
          cells |-> [r \in 1..Len(c.cells) |->
                       Bool(IF c.cells[r] = levels[j + first - 1] THEN 1 ELSE 0)]]]

RECURSIVE Concat(_)
Concat(ss) == IF ss = <<>> THEN <<>> ELSE Head(ss) \o Concat(Tail(ss))

RECURSIVE Keep(_, _)
Keep(t, names) ==
  IF t = <<>> THEN <<>>
  ELSE (IF Head(t).name \in names THEN <<>> ELSE <<Head(t)>>) \o Keep(Tail(t), names)

\* pd.get_dummies(data, columns=columns, drop_first=True): the other columns,
\* then the indicator columns of each listed column in the order listed.
GetDummies(t, columns) ==
  IF \E i \in 1..Len(columns) : ~Has(t, columns[i]) THEN Err(t, "KeyError")
  ELSE Ok(Keep(t, {Name(columns[i]) : i \in 1..Len(columns)})
          \o Concat([i \in 1..Len(columns) |-> Dummies1d(Col(t, columns[i]))]))

\* ------------------------------------------------------------ the pipeline
Finish(r, next) ==
  /\ cleaned_df' = r.t
  /\ IF r.exc = "" THEN pc' = next /\ result' = result
     ELSE pc' = "done" /\ result' = Raised(r.exc)

ReadCsv ==
  /\ pc = "read_csv" /\ file.kind = "csv"
  /\ df' = file.table
  /\ pc' = "copy"
  /\ UNCHANGED <<file, cleaned_df, result, warned>>

ReadNotFound ==
  /\ pc = "read_csv" /\ file.kind = "missing"
  /\ pc' = "done"
  /\ result' = None
  /\ UNCHANGED <<file, df, cleaned_df, warned>>

\* A handler that catches FileNotFoundError alone.
ReadErrorUncaught ==
  /\ pc = "read_csv" /\ file.kind = "malformed"
  /\ pc' = "done"
  /\ result' = Raised("ParserError")
  /\ UNCHANGED <<file, df, cleaned_df, warned>>

ReadError ==
  /\ pc = "read_csv" /\ file.kind = "malformed"
  /\ pc' = "done"
  /\ result' = None
  /\ UNCHANGED <<file, df, cleaned_df, warned>>

Copy ==
  /\ pc = "copy"
  /\ cleaned_df' = df
  /\ pc' = "fill_numeric"
  /\ UNCHANGED <<file, df, result, warned>>

ImputeNumeric ==
  /\ pc = "fill_numeric"
  /\ Finish(FillNumeric(cleaned_df, 1), "fill_categorical")
  /\ UNCHANGED <<file, df, warned>>

ImputeCategorical ==
  /\ pc = "fill_categorical"
  /\ Finish(FillCategorical(cleaned_df, 1), "verify")
  /\ UNCHANGED <<file, df, warned>>

VerifyMissing ==
  /\ pc = "verify"
  /\ warned' = IF NullCount(cleaned_df) = 0 THEN "success" ELSE "warning"
  /\ pc' = "convert_numeric"
  /\ UNCHANGED <<file, df, cleaned_df, result>>

RetypeNumeric ==
  /\ pc = "convert_numeric"
  /\ Finish(ConvertNumeric(cleaned_df, 1), "convert_id")
  /\ UNCHANGED <<file, df, warned>>

RetypeEmployeeID ==
  /\ pc = "convert_id"
  /\ Finish(ConvertEmployeeID(cleaned_df), "encode")
  /\ UNCHANGED <<file, df, warned>>

Encode ==
  /\ pc = "encode"
  /\ Finish(GetDummies(cleaned_df, categorical_cols), "return")
  /\ UNCHANGED <<file, df, warned>>

Return ==
  /\ pc = "return"
  /\ pc' = "done"
  /\ result' = Returned
  /\ UNCHANGED <<file, df, cleaned_df, warned>>

Next ==
  \/ ReadCsv
  \/ ReadNotFound
  \/ ReadError
  \/ Copy
  \/ ImputeNumeric
  \/ ImputeCategorical
  \/ VerifyMissing
  \/ RetypeNumeric
  \/ RetypeEmployeeID
  \/ Encode
  \/ Return

Spec == Init /\ [][Next]_vars

\* ------------------------------------------------------------ properties
Success == pc = "done" /\ result.kind = "DataFrame"

Loaded == file.kind = "csv" /\ pc \notin {"read_csv"}

\* Columns, by index, that are indicator columns made from column c.
Indicators(t, c) == {i \in 1..Len(t) : t[i].name.col = c /\ t[i].name.level # <<>>}

Set(seq) == {seq[i] : i \in 1..Len(seq)}

\* A numeric column holds text.
TextInNumeric(t) ==
  \E c \in Set(NumericCols) : Has(t, c) /\ \E r \in 1..Len(Col(t, c).cells) : Col(t, c).cells[r].k = "str"

\* A column to impute has missing values and nothing else.
EmptyColumn(t) ==
  \E c \in Set(NumericCols) \cup Set(CategoricalFill) :
     Has(t, c) /\ AnyNull(Col(t, c).cells) /\ \A r \in 1..Len(Col(t, c).cells) : IsNull(Col(t, c).cells[r])

\* C1 (Completeness): no cell of a returned table is null, in any column.
\* Violated: a text EmployeeID column or an extra column keeps its missing values.
C1_Completeness ==
  Success => \A i \in 1..Len(cleaned_df) : \A r \in 1..Len(cleaned_df[i].cells) : ~IsNull(cleaned_df[i].cells[r])

\* C2 (errors are terminal): once a column to impute has no non-null value the
\* pipeline does not run on past imputation, and no table is returned for an
\* input with such a column or with text in Age, Salary or Experience.
C2_ErrorsAreTerminal ==
  /\ pc \in {"verify", "convert_numeric", "convert_id", "encode", "return"} => ~EmptyColumn(df)
  /\ Success => ~EmptyColumn(df) /\ ~TextInNumeric(df) /\ ~TextInNumeric(cleaned_df)

\* C3 (type invariant): in a returned table every cell of Age, Salary and
\* Experience is an integer and every cell of EmployeeID is text.
C3_TypeInvariant ==
  Success =>
    /\ \A c \in Set(NumericCols) : \A r \in 1..Len(Col(cleaned_df, c).cells) : Col(cleaned_df, c).cells[r].k = "int"
    /\ \A r \in 1..Len(Col(cleaned_df, "EmployeeID").cells) : Col(cleaned_df, "EmployeeID").cells[r].k = "str"

EncodeStep == pc = "encode" /\ pc' = "return"

\* For column c of table old encoded into table new: the column is gone, every
\* indicator cell is 0 or 1, and with some value as reference level a row has
\* no indicator set when it held the reference and exactly one otherwise.
IndicatorRows(old, new, c) ==
  LET cells == Col(old, c).cells
      ind == Indicators(new, c)
  IN  /\ ~Has(new, c)
      /\ \A i \in ind : \A r \in 1..Len(new[i].cells) : new[i].cells[r] \in {Bool(0), Bool(1)}
      /\ \/ Range(cells) = {}
         \/ \E ref \in Range(cells) : \A r \in 1..Len(cells) :
               Cardinality({i \in ind : new[i].cells[r] = Bool(1)}) = (IF cells[r] = ref THEN 0 ELSE 1)

\* C4 as stated (encoding cardinality): a categorical column of k distinct
\* values is replaced by exactly k-1 indicator columns of 0/1 cells, one of them
\* set in a row unless the row held the reference level.
C4_CardinalityAsStated ==
  [][EncodeStep =>
       \A c \in Set(categorical_cols) :
          /\ Cardinality(Indicators(cleaned_df', c)) = Cardinality(Range(Col(cleaned_df, c).cells)) - 1
          /\ IndicatorRows(cleaned_df, cleaned_df', c)]_vars

\* C4 amended: the same for k >= 1; a table of no rows (k = 0) gets no
\* indicator column.
C4_Cardinality ==
  [][EncodeStep =>
       \A c \in Set(categorical_cols) :
          LET k == Cardinality(Range(Col(cleaned_df, c).cells))
          IN  /\ Cardinality(Indicators(cleaned_df', c)) = (IF k = 0 THEN 0 ELSE k - 1)
              /\ IndicatorRows(cleaned_df, cleaned_df', c)]_vars

\* Three departments were encoded into two indicator columns.
C4_Witness ==
  /\ pc = "return"
  /\ Cardinality(Range(Col(df, "Department").cells)) = 3
  /\ Cardinality(Indicators(cleaned_df, "Department")) = 2

\* The k-th smallest of the non-null cells (k from 1).
Kth(cells, k) ==
  CHOOSE x \in Range(cells) :
     /\ Cardinality({i \in 1..Len(cells) : CellLess(cells[i], x)}) < k
     /\ Cardinality({i \in 1..Len(cells) : ~CellLess(x, cells[i])}) >= k

\* The median of the non-null cells, in quarters.
MedianOf(cells) ==
  LET s == DropNa(cells)
      n == Len(s)
  IN  IF n % 2 = 1 THEN Kth(s, (n + 1) \div 2).v
      ELSE (Kth(s, n \div 2).v + Kth(s, n \div 2 + 1).v) \div 2

\* The most frequent non-null cell, the smallest of them on a tie.
ModeOf(cells) ==
  LET s == DropNa(cells)
  IN  CHOOSE x \in Range(s) :
        /\ \A y \in Range(s) : Count(s, y) <= Count(s, x)
        /\ \A y \in Range(s) : Count(s, y) = Count(s, x) => ~CellLess(y, x)

Partial(cells) == AnyNull(cells) /\ DropNa(cells) # <<>>

C6_LoadFailure ==
  /\ file.kind # "csv" /\ pc # "read_csv" =>
       pc = "done" /\ result = None /\ df = <<>> /\ cleaned_df = <<>>
  /\ result = None => file.kind # "csv"
  /\ Success => cleaned_df # <<>>

C6_Witness == pc = "done" /\ result = None /\ file.kind = "malformed"

\* C7 (row count): after the copy and after every later stage each column of
\* the working table has as many cells as the loaded table has rows.
C7_RowCount ==
  Loaded =>
    /\ \A i \in 1..Len(df) : Len(df[i].cells) = NRows(file.table)
    /\ pc # "copy" => \A i \in 1..Len(cleaned_df) : Len(cleaned_df[i].cells) = NRows(file.table)

\* A table of three rows with missing values went through all four stages.
C7_Witness ==
  /\ Success
  /\ NRows(df) = 3
  /\ NullCount(df) > 0
  /\ \E c \in Set(categorical_cols) : Indicators(cleaned_df, c) # {}

\* C8 (imputer frame): after the impute stage every cell that was not null is
\* unchanged, every column other than the seven imputed ones is unchanged
\* even where null, names and dtypes are kept, and a table without nulls is unchanged.
C8_ImputerFrame ==
  pc \in {"fill_categorical", "verify"} =>
    /\ Len(cleaned_df) = Len(df)
    /\ \A i \in 1..Len(df) :
         /\ cleaned_df[i].name = df[i].name
         /\ cleaned_df[i].dtype = df[i].dtype
         /\ \A r \in 1..Len(df[i].cells) : ~IsNull(df[i].cells[r]) => cleaned_df[i].cells[r] = df[i].cells[r]
         /\ df[i].name.col \notin Set(NumericCols) \cup Set(CategoricalFill) => cleaned_df[i] = df[i]
    /\ NullCount(df) = 0 => cleaned_df = df

\* Imputation filled a cell while an extra column kept its missing value.
C8_Witness ==
  /\ pc = "verify"
  /\ cleaned_df # df
  /\ Has(cleaned_df, "Notes")
  /\ AnyNull(Col(cleaned_df, "Notes").cells)

RetypeStep == pc = "convert_numeric" /\ pc' = "convert_id"

\* n is q quarters truncated toward zero.
TruncatedTo(q, n) ==
  IF q >= 0 THEN n >= 0 /\ n * Unit <= q /\ q < (n + 1) * Unit
  ELSE n <= 0 /\ n * Unit >= q /\ q > (n - 1) * Unit

\* C9 (truncation): the retype stage turns every float cell of Age, Salary and
\* Experience into the integer that is its value truncated toward zero and
\* leaves integer cells as they are.
C9_Truncation ==
  [][RetypeStep =>
       \A c \in Set(NumericCols) : \A r \in 1..Len(Col(cleaned_df, c).cells) :
          LET x == Col(cleaned_df, c).cells[r]
              y == Col(cleaned_df', c).cells[r]
          IN  /\ x.k = "float" => y.k = "int" /\ TruncatedTo(x.v, y.v)
              /\ x.k = "int" => y = x]_vars

\* A fractional median was filled in and a negative fraction was present, and
\* the column has been converted.
C9_Witness ==
  /\ pc = "convert_id"
  /\ \E c \in Set(NumericCols) :
        /\ Partial(Col(df, c).cells)
        /\ MedianOf(Col(df, c).cells) % Unit # 0
        /\ \E r \in 1..Len(Col(df, c).cells) : Col(df, c).cells[r] = Flt(0 - 6)
        /\ Col(cleaned_df, c).dtype = "int64"

\* For column c of table old encoded into table new with reference level ref:
\* no indicator column for ref, one named c_value for every other value, set
\* exactly in the rows that held the value.
ReferenceIs(old, new, c, ref) ==
  LET cells == Col(old, c).cells IN
  /\ \A i \in Indicators(new, c) : new[i].name # DummyName(c, ref)
  /\ \A v \in Range(cells) \ {ref} :
        /\ Cardinality({i \in Indicators(new, c) : new[i].name = DummyName(c, v)}) = 1
        /\ \A i \in Indicators(new, c) : new[i].name = DummyName(c, v) =>
              \A r \in 1..Len(cells) : new[i].cells[r] = Bool(IF cells[r] = v THEN 1 ELSE 0)
  /\ Cardinality(Indicators(new, c)) = Cardinality(Range(cells) \ {ref})

\* C10 as stated (reference level): the dropped level is the first value in
\* lexicographic order of the values' text form.
C10_ReferenceAsStated ==
  [][EncodeStep =>
       \A c \in Set(categorical_cols) : \A ref \in Range(Col(cleaned_df, c).cells) :
          (\A y \in Range(Col(cleaned_df, c).cells) : ~TextLess(CellStr(y), CellStr(ref)))
             => ReferenceIs(cleaned_df, cleaned_df', c, ref)]_vars

\* C10 amended: the dropped level is the first value in the column's own
\* order: numeric order for a column of numbers, code point order for text.
C10_Reference ==
  [][EncodeStep =>
       \A c \in Set(categorical_cols) : \A ref \in Range(Col(cleaned_df, c).cells) :
          (\A y \in Range(Col(cleaned_df, c).cells) : ~CellLess(y, ref))
             => ReferenceIs(cleaned_df, cleaned_df', c, ref)]_vars

\* A column whose first row is not its smallest value was encoded, and the
\* smallest value got no indicator column.
C10_Witness ==
  /\ pc = "return"
  /\ \E c \in Set(categorical_cols) :
        LET cells == Col(df, c).cells IN
        /\ Len(cells) >= 2
        /\ ~AnyNull(cells)
        /\ CellLess(cells[2], cells[1])
        /\ Cardinality(Indicators(cleaned_df, c)) >= 1
        /\ \A i \in Indicators(cleaned_df, c) : cleaned_df[i].name # DummyName(c, cells[2])

====
